---- MODULE Spec2Model ----
(***************************************************************************)
(* State-machine model of the EchoVerse / EgoCore React client.            *)
(*                                                                         *)
(* The application state provider (AppProvider, frontend/src/App.js) and   *)
(* the screens that consume it are modelled as handlers running on one     *)
(* event loop: a handler runs up to its first await in one step, the       *)
(* backend settles the request, and the continuation after the await runs  *)
(* in one step.  A continuation reads the variables its closure captured   *)
(* when the handler was called, so every call record keeps those values.   *)
(***************************************************************************)
EXTENDS Integers, Sequences, FiniteSets, Bags, TLC

(* ---- bounds of the model ---------------------------------------------- *)

\* number of requests that may be in flight at once
MaxInFlight == 2

\* longest chat list
MaxMessages == 3

\* a post is clicked while its displayed like count is in 0..MaxLikes
MaxLikes == 2

\* number of posts the backend creates
MaxPosts == 1

\* largest credit balance a purchase may lead to
MaxCredits == 100

\* number of requests in flight below which a consumer of the context calls
\* one of its operations directly
MaxConsumerCalls == 1

(* ---- values ------------------------------------------------------------ *)

Modes == {"echoverse", "egocore"}

\* JavaScript null / undefined for object-valued state
Null == [null |-> TRUE]

\* JavaScript undefined: a missing property, a context without provider
Undefined == [undefined |-> TRUE]

\* localStorage.getItem of a key that was never set
NoItem == "<null>"

\* the identifier a previous session persisted, and the one the backend
\* gives to a newly created user
SavedId == "u_saved"
DemoId == "u_demo"

\* journeySteps[i].id
StepIds == <<"essence", "mindscape", "aesthetic", "narrative">>
StepSet == {StepIds[i] : i \in 1..Len(StepIds)}

\* the posts the backend holds
PostIds == {"p1"}

\* the ids the backend gives to the posts it creates, in order
NewPostIds == <<"n1", "n2", "n3">>

\* journeySteps[i].questions.length
NumQuestions == 4
Questions == 0..(NumQuestions - 1)

\* the responses of a step map question indices to answers; with one
\* answer text a map is the set of the indices answered, {} when none is
NoResponses == {}

\* the journey progress of a user who answered nothing
NoProgress == [s \in StepSet |-> NoResponses]

VARIABLES
    \* browser and backend
    storage,         \* localStorage['echoverse_user_id']
    backendMode,     \* backend: stored mode of each user
    backendJourney,  \* backend: stored journey progress of each user
    \* AppProvider state
    user,
    currentMode,
    loading,
    userInsights,
    \* the run of initializeUser
    initPc,          \* "start" | "getUser" | "createUser" | "finally" | "done"
    savedUserId,     \* the const read from localStorage
    caught,          \* the catch block of initializeUser was entered
    createOutcome,   \* "none" | "pending" | "ok" | "fail"
    initPromise,     \* "pending" | "resolved" | "rejected"
    loadingClears,   \* number of setLoading(false) calls made
    initRequests,    \* number of lookup / creation requests initialization sent
    \* the async calls whose request is in flight (a bag of records):
    \* arguments, the values the closure captured, state of the request
    calls,
    \* the promise that settled last: which operation, the backend's answer
    \* and whether the promise resolved or rejected
    lastSettled,
    \* a consumer component calling the useApp hook
    hook,
    \* the route the router shows
    route,
    \* EchoVerse (journey) screen state
    currentStep,
    responses,
    isSubmitting,
    personalizedPrompt,
    \* AIChat screen state
    messages,
    inputValue,
    isLoading,
    aiPersonality,
    \* SocialFeed screen state, and the backend's posts
    posts,
    feedLoading,
    backendPosts,
    \* NavigationMenu state
    isOpen,
    \* SocialFeed composer state, and the posts the backend has created
    newPostContent,
    isPosting,
    backendCreated,
    \* MonetizationHub screen state, and the backend's credit balance
    currentTier,
    credits,
    selectedPlan,    \* a key of subscriptionPlans, "<null>" for null
    isProcessing,
    backendCredits,
    \* VRExplorer screen state
    virtualSpaces,
    currentSpace,    \* the id of a space, "<null>" for null
    isInVR,
    \* EgoCore screen state
    userInput,
    aiResponse,
    egoIsLoading,    \* isLoading of EgoCore
    egoPersonality,  \* aiPersonality of EgoCore
    egoPrompt        \* personalizedPrompt of EgoCore

providerVars == <<user, currentMode, loading, userInsights>>
initVars == <<initPc, savedUserId, caught, createOutcome, initPromise, loadingClears,
              initRequests>>
backendVars == <<backendMode, backendJourney>>
journeyVars == <<currentStep, responses, isSubmitting, personalizedPrompt>>
chatVars == <<messages, inputValue, isLoading, aiPersonality>>
socialVars == <<posts, feedLoading, backendPosts>>
navVars == <<isOpen>>
postVars == <<newPostContent, isPosting, backendCreated>>
premiumVars == <<currentTier, credits, selectedPlan, isProcessing, backendCredits>>
vrVars == <<virtualSpaces, currentSpace, isInVR>>
egoVars == <<userInput, aiResponse, egoIsLoading, egoPersonality, egoPrompt>>
pageVars == <<postVars, premiumVars, vrVars, egoVars>>
extraVars == <<navVars, pageVars>>
screens == <<route, journeyVars, chatVars, socialVars, extraVars>>
vars == <<storage, backendVars, providerVars, initVars, calls, lastSettled, hook, screens>>

(* ---- the backend's answers --------------------------------------------- *)

\* GET /users/{id}: response.data
BackendUser(id) ==
    [id |-> id,
     current_mode |-> backendMode[id],
     journey_progress |-> backendJourney[id]]

(* ---- call records ------------------------------------------------------ *)

\* status of a request: "sent" (in flight) or "answered" (the backend has
\* answered with outcome "ok" or "fail", the continuation has not run yet)
InFlight == BagToSet(calls)

Add(inflight, r) == inflight (+) SetToBag({r})

Remove(c) == calls (-) SetToBag({c})

Replace(c, r) == Add(Remove(c), r)

Answer(c, o) == Replace(c, [c EXCEPT !.status = "answered", !.outcome = o])

\* the number of requests of one operation that are in flight
Requests(op, inflight) ==
    BagCardinality([c \in {d \in BagToSet(inflight) : d.op = op} |-> inflight[c]])

CanCallWhileLoading == BagCardinality(calls) < MaxInFlight

\* user interaction is possible once the spinner is gone (App renders the
\* routes only when loading is false)
CanCall == ~loading /\ BagCardinality(calls) < MaxInFlight

\* the promise an async function returned, once settled
Promise(op, outcome, status) == [op |-> op, outcome |-> outcome, status |-> status]

NoPromise == [op |-> "none"]

(* ---- AppProvider: initial state ---------------------------------------- *)

Init ==
    /\ storage \in {NoItem, SavedId}
    /\ backendMode \in [{storage} \ {NoItem} -> Modes]
    /\ backendJourney = [u \in {storage} \ {NoItem} |-> NoProgress]
    /\ user = Null
    /\ currentMode = "echoverse"
    /\ loading = TRUE
    /\ userInsights = <<>>
    /\ initPc = "start"
    /\ savedUserId = NoItem
    /\ caught = FALSE
    /\ createOutcome = "none"
    /\ initPromise = "pending"
    /\ loadingClears = 0
    /\ initRequests = [lookup |-> 0, create |-> 0]
    /\ calls = EmptyBag
    /\ lastSettled = NoPromise
    /\ hook = [called |-> FALSE]
    /\ route = "/"
    /\ currentStep = 0
    /\ responses = NoProgress
    /\ isSubmitting = FALSE
    /\ personalizedPrompt = ""
    /\ messages = <<>>
    /\ inputValue = <<>>
    /\ isLoading = FALSE
    /\ aiPersonality = "{}"
    /\ posts = <<>>
    /\ feedLoading = TRUE
    /\ backendPosts = [p \in PostIds |-> [user_liked |-> FALSE, like_count |-> 1]]
    /\ isOpen = FALSE
    /\ newPostContent = <<>>
    /\ isPosting = FALSE
    /\ backendCreated = <<>>
    /\ currentTier = "free"
    /\ credits = 0
    /\ selectedPlan = "<null>"
    /\ isProcessing = FALSE
    /\ backendCredits = 0
    /\ virtualSpaces = {}
    /\ currentSpace = "<null>"
    /\ isInVR = FALSE
    /\ userInput = <<>>
    /\ aiResponse = Null
    /\ egoIsLoading = FALSE
    /\ egoPersonality = "initial"
    /\ egoPrompt = <<>>

(* ---- AppProvider: initializeUser / createDemoUser ---------------------- *)

initializeUserFinallyNoClear ==
    /\ initPc = "finally"
    /\ initPc' = "done"
    /\ initPromise' = "resolved"
    /\ UNCHANGED <<loading, loadingClears, initRequests>>
    /\ UNCHANGED <<storage, backendVars, user, currentMode, userInsights,
                   savedUserId, caught, createOutcome, calls, lastSettled, hook, screens>>

\* finally { setLoading(false) } and the return of initializeUser
initializeUserFinally ==
    /\ initPc = "finally"
    /\ loading' = FALSE
    /\ loadingClears' = loadingClears + 1
    /\ initPc' = "done"
    /\ initPromise' = "resolved"
    /\ UNCHANGED <<storage, backendVars, user, currentMode, userInsights,
                   savedUserId, caught, createOutcome, initRequests, calls,
                   lastSettled, hook, screens>>

\* the useEffect of AppProvider calls initializeUser: the read of
\* localStorage and the first request
initializeUserStart ==
    /\ initPc = "start"
    /\ savedUserId' = storage
    /\ IF storage # NoItem
          THEN /\ initPc' = "getUser"
               /\ initRequests' = [initRequests EXCEPT !.lookup = @ + 1]
               /\ UNCHANGED createOutcome
          ELSE /\ initPc' = "createUser"
               /\ initRequests' = [initRequests EXCEPT !.create = @ + 1]
               /\ createOutcome' = "pending"
    /\ UNCHANGED <<storage, backendVars, providerVars, caught, initPromise,
                   loadingClears, calls, lastSettled, hook, screens>>

initializeUserThenNoMode ==
    /\ initPc = "getUser"
    /\ user' = BackendUser(savedUserId)
    /\ loading' = FALSE
    /\ loadingClears' = loadingClears + 1
    /\ initPc' = "done"
    /\ initPromise' = "resolved"
    /\ UNCHANGED <<storage, backendVars, currentMode, userInsights, savedUserId,
                   caught, createOutcome, initRequests, calls, lastSettled,
                   hook, screens>>

\* GET /users/{savedUserId} succeeded: setUser, setCurrentMode, finally
initializeUserThen ==
    /\ initPc = "getUser"
    /\ user' = BackendUser(savedUserId)
    /\ currentMode' = BackendUser(savedUserId).current_mode
    /\ loading' = FALSE
    /\ loadingClears' = loadingClears + 1
    /\ initPc' = "done"
    /\ initPromise' = "resolved"
    /\ UNCHANGED <<storage, backendVars, userInsights, savedUserId, caught,
                   createOutcome, initRequests, calls, lastSettled, hook, screens>>

\* GET /users/{savedUserId} failed: catch, which calls createDemoUser
initializeUserCatch ==
    /\ initPc = "getUser"
    /\ caught' = TRUE
    /\ initPc' = "createUser"
    /\ createOutcome' = "pending"
    /\ initRequests' = [initRequests EXCEPT !.create = @ + 1]
    /\ UNCHANGED <<storage, backendVars, providerVars, savedUserId,
                   initPromise, loadingClears, calls, lastSettled, hook, screens>>

createDemoUserThenNoSetUser ==
    /\ initPc = "createUser"
    /\ \E m \in Modes : backendMode' = (DemoId :> m) @@ backendMode
    /\ backendJourney' = (DemoId :> NoProgress) @@ backendJourney
    /\ storage' = DemoId
    /\ createOutcome' = "ok"
    /\ initPc' = "finally"
    /\ UNCHANGED <<providerVars, savedUserId, caught, initPromise,
                   loadingClears, initRequests, calls, lastSettled, hook, screens>>

createDemoUserThenAdoptMode ==
    /\ initPc = "createUser"
    /\ \E m \in Modes : backendMode' = (DemoId :> m) @@ backendMode
    /\ backendJourney' = (DemoId :> NoProgress) @@ backendJourney
    /\ user' = [id |-> DemoId, current_mode |-> backendMode'[DemoId],
                journey_progress |-> NoProgress]
    /\ currentMode' = backendMode'[DemoId]
    /\ storage' = DemoId
    /\ createOutcome' = "ok"
    /\ initPc' = "finally"
    /\ UNCHANGED <<loading, userInsights, savedUserId, caught,
                   initPromise, loadingClears, initRequests, calls, lastSettled,
                   hook, screens>>

createDemoUserThenNoPersist ==
    /\ initPc = "createUser"
    /\ \E m \in Modes : backendMode' = (DemoId :> m) @@ backendMode
    /\ backendJourney' = (DemoId :> NoProgress) @@ backendJourney
    /\ user' = [id |-> DemoId, current_mode |-> backendMode'[DemoId],
                journey_progress |-> NoProgress]
    /\ createOutcome' = "ok"
    /\ initPc' = "finally"
    /\ UNCHANGED <<storage, currentMode, loading, userInsights, savedUserId,
                   caught, initPromise, loadingClears, initRequests, calls,
                   lastSettled, hook, screens>>

\* POST /users succeeded (the backend has created the user, in a mode of its
\* choice): setUser(response.data), localStorage.setItem
createDemoUserThen ==
    /\ initPc = "createUser"
    /\ \E m \in Modes : backendMode' = (DemoId :> m) @@ backendMode
    /\ backendJourney' = (DemoId :> NoProgress) @@ backendJourney
    /\ user' = [id |-> DemoId, current_mode |-> backendMode'[DemoId],
                journey_progress |-> NoProgress]
    /\ storage' = DemoId
    /\ createOutcome' = "ok"
    /\ initPc' = "finally"
    /\ UNCHANGED <<currentMode, loading, userInsights, savedUserId, caught,
                   initPromise, loadingClears, initRequests, calls, lastSettled,
                   hook, screens>>

createDemoUserCatchRethrow ==
    /\ initPc = "createUser"
    /\ createOutcome' = "fail"
    /\ loading' = FALSE
    /\ loadingClears' = loadingClears + 1
    /\ initPc' = "done"
    /\ initPromise' = "rejected"
    /\ UNCHANGED <<storage, backendVars, user, currentMode, userInsights,
                   savedUserId, caught, initRequests, calls, lastSettled, hook, screens>>

\* POST /users failed: the catch of createDemoUser logs and returns
createDemoUserCatch ==
    /\ initPc = "createUser"
    /\ createOutcome' = "fail"
    /\ initPc' = "finally"
    /\ UNCHANGED <<storage, backendVars, providerVars, savedUserId, caught,
                   initPromise, loadingClears, initRequests, calls, lastSettled,
                   hook, screens>>

InitNext ==
    \/ initializeUserStart
    \/ initializeUserThen
    \/ initializeUserCatch
    \/ createDemoUserThen
    \/ createDemoUserCatch
    \/ initializeUserFinally

(* ---- AppProvider: trackBehavior ---------------------------------------- *)

\* the request of one trackBehavior(eventType, eventData) call made with
\* the user `u` of its closure
TrackRequest(eventType, eventData, u) ==
    [op |-> "track", status |-> "sent", outcome |-> "none", user_id |-> u.id,
     event_type |-> eventType, event_data |-> eventData]

\* trackBehavior called from another handler, whose promise nobody awaits:
\* the calls in flight after it
Tracked(inflight, eventType, eventData, u) ==
    IF u = Null THEN inflight
    ELSE Add(inflight, TrackRequest(eventType, eventData, u))

\* a screen calls trackBehavior (UserProfile reports 'profile_view')
trackBehavior ==
    /\ CanCall
    /\ IF user = Null
          THEN /\ lastSettled' = Promise("track", "none", "resolved")
               /\ UNCHANGED calls
          ELSE /\ calls' = Add(calls,
                      TrackRequest("profile_view", [tab |-> "overview"], user))
               /\ UNCHANGED lastSettled
    /\ UNCHANGED <<storage, backendVars, providerVars, initVars, hook, screens>>

\* POST /behavior/track succeeded
trackBehaviorThen(c) ==
    /\ c.op = "track" /\ c.status = "sent"
    /\ calls' = Remove(c)
    /\ lastSettled' = Promise("track", "ok", "resolved")
    /\ UNCHANGED <<storage, backendVars, providerVars, initVars, hook, screens>>

trackBehaviorCatchRethrow(c) ==
    /\ c.op = "track" /\ c.status = "sent"
    /\ calls' = Remove(c)
    /\ lastSettled' = Promise("track", "fail", "rejected")
    /\ UNCHANGED <<storage, backendVars, providerVars, initVars, hook, screens>>

\* POST /behavior/track failed: the catch logs
trackBehaviorCatch(c) ==
    /\ c.op = "track" /\ c.status = "sent"
    /\ calls' = Remove(c)
    /\ lastSettled' = Promise("track", "fail", "resolved")
    /\ UNCHANGED <<storage, backendVars, providerVars, initVars, hook, screens>>

TrackSettle ==
    \/ \E c \in InFlight : trackBehaviorThen(c)
    \/ \E c \in InFlight : trackBehaviorCatch(c)

(* ---- AppProvider: switchMode ------------------------------------------- *)

\* switchMode(mode) up to its await: the request carries the id of the
\* closure's user, and the closure holds the currentMode of that render
switchMode(mode) ==
    /\ CanCall
    /\ IF user = Null
          THEN /\ lastSettled' = Promise("mode", "none", "resolved")
               /\ UNCHANGED calls
          ELSE /\ calls' = Add(calls,
                      [op |-> "mode", status |-> "sent", outcome |-> "none",
                       user_id |-> user.id, mode |-> mode,
                       from |-> currentMode, closureUser |-> user])
               /\ UNCHANGED lastSettled
    /\ UNCHANGED <<storage, backendVars, providerVars, initVars, hook, screens>>

\* the backend stores the mode and answers 200
backendSwitchMode(c) ==
    /\ c.op = "mode" /\ c.status = "sent"
    /\ backendMode' = [backendMode EXCEPT ![c.user_id] = c.mode]
    /\ calls' = Answer(c, "ok")
    /\ UNCHANGED <<storage, backendJourney, providerVars, initVars, lastSettled, hook, screens>>

\* the request fails (error response, or the backend is unreachable)
backendSwitchModeFail(c) ==
    /\ c.op = "mode" /\ c.status = "sent"
    /\ calls' = Answer(c, "fail")
    /\ UNCHANGED <<storage, backendVars, providerVars, initVars, lastSettled, hook, screens>>

\* initializeChat: the welcome message of the mode (ids and timestamps of
\* messages are left out)
welcomeMessage(mode) == [type |-> "ai", content |-> <<"welcome", mode>>]

\* the effect of AIChat, run on mount and when currentMode has changed:
\* initializeChat() replaces the chat list, trackBehavior('ai_chat_enter')
AIChatEffect(mode, inflight) ==
    /\ messages' = <<welcomeMessage(mode)>>
    /\ calls' = Tracked(inflight, "ai_chat_enter", [mode |-> mode], user)

switchModeThenFromResponse(c) ==
    /\ c.op = "mode" /\ c.status = "answered" /\ c.outcome = "ok"
    /\ currentMode' = "<undefined>"
    /\ lastSettled' = Promise("mode", "ok", "resolved")
    /\ calls' = Tracked(Remove(c), "mode_switch",
                        [from |-> c.from, to |-> c.mode], c.closureUser)
    /\ UNCHANGED <<storage, backendVars, user, loading, userInsights, initVars,
                   hook, screens>>

\* after the await: setCurrentMode(mode); trackBehavior('mode_switch', ...);
\* the render that follows runs the effects that depend on currentMode
switchModeThen(c) ==
    /\ c.op = "mode" /\ c.status = "answered" /\ c.outcome = "ok"
    /\ currentMode' = c.mode
    /\ lastSettled' = Promise("mode", "ok", "resolved")
    /\ LET tracked == Tracked(Remove(c), "mode_switch",
                              [from |-> c.from, to |-> c.mode],
                              c.closureUser)
       IN  IF route = "/chat" /\ c.mode # currentMode
           THEN AIChatEffect(c.mode, tracked)
           ELSE calls' = tracked /\ UNCHANGED messages
    /\ UNCHANGED <<storage, backendVars, user, loading, userInsights, initVars,
                   hook, route, journeyVars, inputValue, isLoading,
                   aiPersonality, socialVars,
                   extraVars>>

\* the catch of switchMode logs
switchModeCatch(c) ==
    /\ c.op = "mode" /\ c.status = "answered" /\ c.outcome = "fail"
    /\ calls' = Remove(c)
    /\ lastSettled' = Promise("mode", "fail", "resolved")
    /\ UNCHANGED <<storage, backendVars, providerVars, initVars, hook, screens>>

SwitchSettle ==
    \/ \E c \in InFlight : backendSwitchMode(c)
    \/ \E c \in InFlight : backendSwitchModeFail(c)
    \/ \E c \in InFlight : switchModeThen(c)
    \/ \E c \in InFlight : switchModeCatch(c)

SwitchNext ==
    \/ \E m \in Modes : switchMode(m)
    \/ \E c \in InFlight : backendSwitchMode(c)
    \/ \E c \in InFlight : backendSwitchModeFail(c)
    \/ \E c \in InFlight : switchModeThen(c)
    \/ \E c \in InFlight : switchModeCatch(c)

(* ---- AppProvider: getUserInsights -------------------------------------- *)

\* the bodies GET /analytics/{id}/insights may answer with
InsightsData == {[insights |-> <<"i1">>], [insights |-> <<"i2">>]}

getUserInsightsNoGuard ==
    /\ CanCall
    /\ calls' = Add(calls,
          [op |-> "insights", status |-> "sent", outcome |-> "none",
           user_id |-> IF user = Null THEN "<undefined>" ELSE user.id])
    /\ UNCHANGED <<storage, backendVars, providerVars, initVars, lastSettled,
                   hook, screens>>

\* a screen calls getUserInsights (UserProfile and EgoCore do on mount) up
\* to its await
getUserInsights ==
    /\ CanCall
    /\ IF user = Null
          THEN /\ lastSettled' = Promise("insights", "none", "resolved")
               /\ UNCHANGED calls
          ELSE /\ calls' = Add(calls,
                      [op |-> "insights", status |-> "sent", outcome |-> "none",
                       user_id |-> user.id])
               /\ UNCHANGED lastSettled
    /\ UNCHANGED <<storage, backendVars, providerVars, initVars, hook, screens>>

\* the backend answers with the insights it derived
backendInsights(c) ==
    /\ c.op = "insights" /\ c.status = "sent"
    /\ \E d \in InsightsData :
          calls' = Replace(c, [op |-> "insights", status |-> "answered",
                               outcome |-> "ok", user_id |-> c.user_id,
                               data |-> d])
    /\ UNCHANGED <<storage, backendVars, providerVars, initVars, lastSettled,
                   hook, screens>>

\* the request fails
backendInsightsFail(c) ==
    /\ c.op = "insights" /\ c.status = "sent"
    /\ calls' = Answer(c, "fail")
    /\ UNCHANGED <<storage, backendVars, providerVars, initVars, lastSettled,
                   hook, screens>>

getUserInsightsThenMerge(c) ==
    /\ c.op = "insights" /\ c.status = "answered" /\ c.outcome = "ok"
    /\ userInsights' =
          IF userInsights = <<>> THEN c.data
          ELSE [insights |-> userInsights.insights \o c.data.insights]
    /\ calls' = Remove(c)
    /\ lastSettled' = Promise("insights", "ok", "resolved")
    /\ UNCHANGED <<storage, backendVars, user, currentMode, loading, initVars,
                   hook, screens>>

\* after the await: setUserInsights(response.data)
getUserInsightsThen(c) ==
    /\ c.op = "insights" /\ c.status = "answered" /\ c.outcome = "ok"
    /\ userInsights' = c.data
    /\ calls' = Remove(c)
    /\ lastSettled' = Promise("insights", "ok", "resolved")
    /\ UNCHANGED <<storage, backendVars, user, currentMode, loading, initVars,
                   hook, screens>>

\* the catch of getUserInsights logs
getUserInsightsCatch(c) ==
    /\ c.op = "insights" /\ c.status = "answered" /\ c.outcome = "fail"
    /\ calls' = Remove(c)
    /\ lastSettled' = Promise("insights", "fail", "resolved")
    /\ UNCHANGED <<storage, backendVars, providerVars, initVars, hook, screens>>

InsightsNext ==
    \/ getUserInsights
    \/ \E c \in InFlight : backendInsights(c)
    \/ \E c \in InFlight : backendInsightsFail(c)
    \/ \E c \in InFlight : getUserInsightsThen(c)
    \/ \E c \in InFlight : getUserInsightsCatch(c)

(* ---- EchoVerse screen and AppProvider.updateUserJourney ---------------- *)

\* journeySteps[currentStep].id
StepId(step) == StepIds[step + 1]

\* the button that calls handleStepComplete is disabled unless every
\* question of the step has an answer and no submission is running
isStepComplete == Cardinality(responses[StepId(currentStep)]) >= NumQuestions

\* fetchPersonalizedPrompt() called with the user `u` of its closure: the
\* calls in flight after it
Prompted(inflight, u) ==
    IF u = Null THEN inflight
    ELSE Add(inflight, [op |-> "prompt", status |-> "sent",
                           outcome |-> "none", user_id |-> u.id])

\* the router shows the EchoVerse screen: its state is fresh and its mount
\* effect reports 'echoverse_enter' and fetches the prompt
EchoVerseMount ==
    /\ ~loading /\ route = "/" /\ calls = EmptyBag
    /\ route' = "/echoverse"
    /\ calls' = Prompted(Tracked(calls, "echoverse_enter", [at |-> "now"], user), user)
    /\ UNCHANGED <<storage, backendVars, providerVars, initVars, lastSettled,
                   hook, journeyVars, chatVars, socialVars,
                   extraVars>>

\* GET /journey/{id}/prompts succeeded
fetchPersonalizedPromptThen(c) ==
    /\ c.op = "prompt" /\ c.status = "sent"
    /\ personalizedPrompt' = "prompt"
    /\ calls' = Remove(c)
    /\ UNCHANGED <<storage, backendVars, providerVars, initVars, lastSettled,
                   hook, route, currentStep, responses, isSubmitting,
                   chatVars, socialVars,
                   extraVars>>

\* GET /journey/{id}/prompts failed: logged
fetchPersonalizedPromptCatch(c) ==
    /\ c.op = "prompt" /\ c.status = "sent"
    /\ calls' = Remove(c)
    /\ UNCHANGED <<storage, backendVars, providerVars, initVars, lastSettled,
                   hook, screens>>

\* the user answers question q of the current step
handleResponseChange(q) ==
    /\ ~loading /\ route = "/echoverse"
    /\ responses' = [responses EXCEPT ![StepId(currentStep)] = @ \cup {q}]
    /\ UNCHANGED <<storage, backendVars, providerVars, initVars, calls,
                   lastSettled, hook, route, currentStep, isSubmitting,
                   personalizedPrompt, chatVars, socialVars,
                   extraVars>>

\* the Previous button, disabled on the first step
previousStep ==
    /\ ~loading /\ route = "/echoverse"
    /\ currentStep # 0
    /\ currentStep' = IF currentStep - 1 > 0 THEN currentStep - 1 ELSE 0
    /\ UNCHANGED <<storage, backendVars, providerVars, initVars, calls,
                   lastSettled, hook, route, responses, isSubmitting,
                   personalizedPrompt, chatVars, socialVars,
                   extraVars>>

handleStepCompleteNoDisable ==
    /\ CanCall /\ route = "/echoverse"
    /\ isStepComplete
    /\ IF user = Null
          THEN UNCHANGED <<calls, isSubmitting>>
          ELSE /\ isSubmitting' = TRUE
               /\ calls' = Add(calls,
                      [op |-> "journey", status |-> "sent", outcome |-> "none",
                       user_id |-> user.id,
                       step |-> StepId(currentStep),
                       responses |-> responses[StepId(currentStep)],
                       currentStep |-> currentStep,
                       allResponses |-> responses,
                       closureUser |-> user])
    /\ UNCHANGED <<storage, backendVars, providerVars, initVars, lastSettled,
                   hook, route, currentStep, responses, personalizedPrompt,
                   chatVars, socialVars,
                   extraVars>>

\* the click on the enabled button: handleStepComplete up to the await in
\* updateUserJourney(stepId, stepResponses)
handleStepComplete ==
    /\ CanCall /\ route = "/echoverse"
    /\ isStepComplete /\ ~isSubmitting
    /\ IF user = Null
          THEN UNCHANGED <<calls, isSubmitting>>
          ELSE /\ isSubmitting' = TRUE
               /\ calls' = Add(calls,
                      [op |-> "journey", status |-> "sent", outcome |-> "none",
                       user_id |-> user.id,
                       step |-> StepId(currentStep),
                       responses |-> responses[StepId(currentStep)],
                       currentStep |-> currentStep,
                       allResponses |-> responses,
                       closureUser |-> user])
    /\ UNCHANGED <<storage, backendVars, providerVars, initVars, lastSettled,
                   hook, route, currentStep, responses, personalizedPrompt,
                   chatVars, socialVars,
                   extraVars>>

\* handleStepComplete after `await updateUserJourney(...)` returned, for the
\* call record c and the calls then in flight: the next step and its
\* prompt, or the end of the journey; finally setIsSubmitting(false)
handleStepCompleteResume(c, inflight) ==
    /\ isSubmitting' = FALSE
    /\ IF c.currentStep < Len(StepIds) - 1
          THEN /\ currentStep' = c.currentStep + 1
               /\ calls' = Prompted(inflight, c.closureUser)
               /\ UNCHANGED route
          ELSE /\ calls' = Tracked(inflight, "echoverse_complete",
                                   [all_responses |-> c.allResponses],
                                   c.closureUser)
               /\ route' = "/profile"
               /\ UNCHANGED currentStep

\* a consumer of the context calls updateUserJourney(step, rs) itself, up
\* to the await
updateUserJourney(step, rs) ==
    /\ CanCall
    /\ IF user = Null
          THEN /\ lastSettled' = Promise("journey", "none", "resolved")
               /\ UNCHANGED calls
          ELSE /\ calls' = Add(calls,
                      [op |-> "journey", status |-> "sent", outcome |-> "none",
                       user_id |-> user.id, step |-> step, responses |-> rs,
                       closureUser |-> user])
               /\ UNCHANGED lastSettled
    /\ UNCHANGED <<storage, backendVars, providerVars, initVars, hook, screens>>

\* the caller of updateUserJourney resumes after its await: the EchoVerse
\* screen runs the rest of handleStepComplete, another consumer nothing
updateUserJourneyResume(c, inflight) ==
    IF "currentStep" \in DOMAIN c
    THEN handleStepCompleteResume(c, inflight)
    ELSE calls' = inflight /\ UNCHANGED <<isSubmitting, currentStep, route>>

updateUserJourneyThenNoTrack(c) ==
    /\ c.op = "journey" /\ c.status = "sent"
    /\ backendJourney' = [backendJourney EXCEPT
                            ![c.user_id][c.step] = c.responses]
    /\ lastSettled' = Promise("journey", "ok", "resolved")
    /\ updateUserJourneyResume(c, Remove(c))
    /\ UNCHANGED <<storage, backendMode, providerVars, initVars, hook,
                   responses, personalizedPrompt, chatVars, socialVars,
                   extraVars>>

\* POST /journey/{id}/step succeeded (the backend stores the responses of
\* the step): trackBehavior('journey_progress', ...), then the caller resumes
updateUserJourneyThen(c) ==
    /\ c.op = "journey" /\ c.status = "sent"
    /\ backendJourney' = [backendJourney EXCEPT
                            ![c.user_id][c.step] = c.responses]
    /\ lastSettled' = Promise("journey", "ok", "resolved")
    /\ updateUserJourneyResume(c,
          Tracked(Remove(c), "journey_progress",
                  [step |-> c.step, responses |-> c.responses],
                  c.closureUser))
    /\ UNCHANGED <<storage, backendMode, providerVars, initVars, hook,
                   responses, personalizedPrompt, chatVars, socialVars,
                   extraVars>>

\* the error leaves updateUserJourney and is caught by handleStepComplete,
\* which logs it and clears isSubmitting
updateUserJourneyCatchRetry(c) ==
    /\ c.op = "journey" /\ c.status = "sent"
    /\ lastSettled' = Promise("journey", "fail", "resolved")
    /\ updateUserJourneyResume(c, Add(Remove(c), c))
    /\ UNCHANGED <<storage, backendVars, providerVars, initVars, hook,
                   responses, personalizedPrompt, chatVars, socialVars,
                   extraVars>>

updateUserJourneyCatchRethrow(c) ==
    /\ c.op = "journey" /\ c.status = "sent"
    /\ lastSettled' = Promise("journey", "fail", "rejected")
    /\ isSubmitting' = FALSE
    /\ calls' = Remove(c)
    /\ UNCHANGED <<storage, backendVars, providerVars, initVars, hook,
                   route, currentStep, responses, personalizedPrompt,
                   chatVars, socialVars,
                   extraVars>>

\* POST /journey/{id}/step failed: the catch of updateUserJourney logs, the
\* promise resolves and the caller resumes
updateUserJourneyCatch(c) ==
    /\ c.op = "journey" /\ c.status = "sent"
    /\ lastSettled' = Promise("journey", "fail", "resolved")
    /\ updateUserJourneyResume(c, Remove(c))
    /\ UNCHANGED <<storage, backendVars, providerVars, initVars, hook,
                   responses, personalizedPrompt, chatVars, socialVars,
                   extraVars>>

JourneyNext ==
    \/ EchoVerseMount
    \/ \E q \in Questions : handleResponseChange(q)
    \/ previousStep
    \/ handleStepComplete
    \/ \E c \in InFlight : updateUserJourneyThen(c)
    \/ \E c \in InFlight : updateUserJourneyCatch(c)
    \/ \E c \in InFlight : fetchPersonalizedPromptThen(c)
    \/ \E c \in InFlight : fetchPersonalizedPromptCatch(c)

\* the journey without its back button: answering and submitting a step
JourneySubmitNext ==
    \/ EchoVerseMount
    \/ \E q \in Questions : handleResponseChange(q)
    \/ handleStepComplete
    \/ \E c \in InFlight : updateUserJourneyThen(c)
    \/ \E c \in InFlight : updateUserJourneyCatch(c)
    \/ \E c \in InFlight : fetchPersonalizedPromptThen(c)
    \/ \E c \in InFlight : fetchPersonalizedPromptCatch(c)

(* ---- AIChat screen ------------------------------------------------------ *)

\* String.prototype.trim on a text of spaces and letters
RECURSIVE TrimStart(_)
TrimStart(t) ==
    IF t # <<>> /\ Head(t) = " " THEN TrimStart(Tail(t)) ELSE t

RECURSIVE TrimEnd(_)
TrimEnd(t) ==
    IF t # <<>> /\ t[Len(t)] = " " THEN TrimEnd(SubSeq(t, 1, Len(t) - 1)) ELSE t

trim(t) == TrimEnd(TrimStart(t))

\* the texts a user types: empty, blank, and one that is not blank but
\* starts with a blank
Inputs == {<<>>, <<" ">>, <<" ", "a">>}

\* messages.slice(-5)
LastFive(ms) == SubSeq(ms, IF Len(ms) > 5 THEN Len(ms) - 4 ELSE 1, Len(ms))

userMessage(text) == [type |-> "user", content |-> text]

\* the message built from response.data: the backend's reply to a request
aiMessage(c) == [type |-> "ai", content |-> <<"reply">> \o c.message]

\* the locally synthesized message of the catch block
errorMessage == [type |-> "ai", content |-> <<"fallback">>]

\* the router shows the chat screen: fresh state, then the effect
AIChatMount ==
    /\ ~loading /\ route = "/" /\ calls = EmptyBag
    /\ route' = "/chat"
    /\ AIChatEffect(currentMode, calls)
    /\ UNCHANGED <<storage, backendVars, providerVars, initVars, lastSettled,
                   hook, journeyVars, inputValue, isLoading, aiPersonality,
                   socialVars,
                   extraVars>>

\* the user types (the textarea is disabled while isLoading)
setInputValue(text) ==
    /\ ~loading /\ route = "/chat" /\ ~isLoading
    /\ inputValue' = text
    /\ UNCHANGED <<storage, backendVars, providerVars, initVars, calls,
                   lastSettled, hook, route, journeyVars, messages, isLoading,
                   aiPersonality, socialVars,
                   extraVars>>

\* Enter in the textarea, or a click on Send: sendMessage up to its await
sendMessage ==
    /\ CanCall /\ route = "/chat" /\ ~isLoading
    /\ Len(messages) + 2 <= MaxMessages
    /\ IF trim(inputValue) = <<>> \/ user = Null \/ isLoading
          THEN UNCHANGED <<messages, inputValue, isLoading, calls>>
          ELSE /\ messages' = Append(messages, userMessage(inputValue))
               /\ inputValue' = <<>>
               /\ isLoading' = TRUE
               /\ calls' = Add(calls,
                      [op |-> "chat", status |-> "sent", outcome |-> "none",
                       user_id |-> user.id,
                       message |-> inputValue,
                       mode |-> currentMode,
                       conversation_history |-> LastFive(messages),
                       personality_state |-> aiPersonality,
                       closureUser |-> user])
    /\ UNCHANGED <<storage, backendVars, providerVars, initVars, lastSettled,
                   hook, route, journeyVars, aiPersonality, socialVars,
                   extraVars>>

\* POST /ai/chat succeeded: the reply is appended to the list as it is now
sendMessageThen(c) ==
    /\ c.op = "chat" /\ c.status = "sent"
    /\ messages' = Append(messages, aiMessage(c))
    /\ aiPersonality' = "traits"
    /\ isLoading' = FALSE
    /\ calls' = Tracked(Remove(c), "ai_message_sent",
                        [message_length |-> Len(c.message),
                         mode |-> c.mode],
                        c.closureUser)
    /\ lastSettled' = Promise("chat", "ok", "resolved")
    /\ UNCHANGED <<storage, backendVars, providerVars, initVars, hook, route,
                   journeyVars, inputValue, socialVars,
                   extraVars>>

sendMessageCatchNoFallback(c) ==
    /\ c.op = "chat" /\ c.status = "sent"
    /\ isLoading' = FALSE
    /\ calls' = Remove(c)
    /\ lastSettled' = Promise("chat", "fail", "resolved")
    /\ UNCHANGED <<storage, backendVars, providerVars, initVars, hook, route,
                   journeyVars, messages, inputValue, aiPersonality, socialVars,
                   extraVars>>

\* POST /ai/chat failed: toast, the fallback message is appended
sendMessageCatch(c) ==
    /\ c.op = "chat" /\ c.status = "sent"
    /\ messages' = Append(messages, errorMessage)
    /\ isLoading' = FALSE
    /\ calls' = Remove(c)
    /\ lastSettled' = Promise("chat", "fail", "resolved")
    /\ UNCHANGED <<storage, backendVars, providerVars, initVars, hook, route,
                   journeyVars, inputValue, aiPersonality, socialVars,
                   extraVars>>

\* a click on the mode toggle of the navigation menu while the chat screen
\* is shown and no earlier mode request is pending
ChatModeToggle ==
    /\ route = "/chat"
    /\ \A c \in InFlight : c.op # "mode"
    /\ \E m \in Modes : switchMode(m)

ChatNext ==
    \/ AIChatMount
    \/ \E text \in Inputs : setInputValue(text)
    \/ sendMessage
    \/ \E c \in InFlight : sendMessageThen(c)
    \/ \E c \in InFlight : sendMessageCatch(c)

(* ---- SocialFeed screen -------------------------------------------------- *)

\* GET /social/feed: response.data.posts
BackendFeed ==
    LET ids == backendCreated \o <<"p1">>
    IN  [k \in 1..Len(ids) |->
            IF ids[k] \in PostIds
            THEN [id |-> ids[k],
                  user_liked |-> backendPosts[ids[k]].user_liked,
                  like_count |-> backendPosts[ids[k]].like_count]
            ELSE [id |-> ids[k], user_liked |-> FALSE, like_count |-> 0]]

\* the router shows the feed: its effect loads the feed and reports the
\* view when there is a user
SocialFeedMount ==
    /\ ~loading /\ route = "/" /\ calls = EmptyBag
    /\ route' = "/social"
    /\ calls' = IF user = Null THEN calls
                ELSE Tracked(Add(calls,
                        [op |-> "feed", status |-> "sent", outcome |-> "none",
                         user_id |-> user.id]),
                        "social_feed_view", [at |-> "now"], user)
    /\ UNCHANGED <<storage, backendVars, providerVars, initVars, lastSettled,
                   hook, journeyVars, chatVars, socialVars,
                   extraVars>>

\* the backend answers the feed request with the posts it holds
backendFeed(c) ==
    /\ c.op = "feed" /\ c.status = "sent"
    /\ calls' = Replace(c,
                    [op |-> "feed", status |-> "answered", outcome |-> "ok",
                     user_id |-> c.user_id, data |-> BackendFeed])
    /\ UNCHANGED <<storage, backendVars, providerVars, initVars, lastSettled,
                   hook, screens>>

\* GET /social/feed answered: setPosts(response.data.posts), finally
loadSocialFeedThen(c) ==
    /\ c.op = "feed" /\ c.status = "answered"
    /\ posts' = c.data
    /\ feedLoading' = FALSE
    /\ calls' = Remove(c)
    /\ UNCHANGED <<storage, backendVars, providerVars, initVars, lastSettled,
                   hook, route, journeyVars, chatVars, backendPosts,
                   extraVars>>

\* GET /social/feed failed: toast, finally
loadSocialFeedCatch(c) ==
    /\ c.op = "feed" /\ c.status = "sent"
    /\ feedLoading' = FALSE
    /\ calls' = Remove(c)
    /\ UNCHANGED <<storage, backendVars, providerVars, initVars, lastSettled,
                   hook, route, journeyVars, chatVars, posts, backendPosts,
                   extraVars>>

PostIndex(ps, postId) == {k \in 1..Len(ps) : ps[k].id = postId}

\* a click on the like button of a displayed post: likePost(postId) up to
\* its await; the closure holds the posts of the render that was clicked
likePost(postId) ==
    /\ CanCall /\ route = "/social"
    /\ \E k \in PostIndex(posts, postId) : posts[k].like_count \in 0..MaxLikes
    /\ calls' = IF user = Null THEN calls
                ELSE Add(calls,
                        [op |-> "like", status |-> "sent", outcome |-> "none",
                         user_id |-> user.id, post_id |-> postId,
                         posts |-> posts, closureUser |-> user])
    /\ UNCHANGED <<storage, backendVars, providerVars, initVars, lastSettled,
                   hook, screens>>

\* the backend toggles the user's like of the post and reports the new state
backendLike(c) ==
    /\ c.op = "like" /\ c.status = "sent"
    /\ LET p == c.post_id
           liked == ~backendPosts[p].user_liked
       IN  /\ backendPosts' = [backendPosts EXCEPT ![p] =
                  [user_liked |-> liked,
                   like_count |-> IF liked THEN @.like_count + 1
                                  ELSE @.like_count - 1]]
           /\ calls' = Replace(c,
                  [op |-> "like", status |-> "answered", outcome |-> "ok",
                   user_id |-> c.user_id, post_id |-> p,
                   posts |-> c.posts,
                   closureUser |-> c.closureUser, liked |-> liked])
    /\ UNCHANGED <<storage, backendVars, providerVars, initVars, lastSettled,
                   hook, route, journeyVars, chatVars, posts, feedLoading,
                   extraVars>>

\* the like request fails
backendLikeFail(c) ==
    /\ c.op = "like" /\ c.status = "sent"
    /\ calls' = Answer(c, "fail")
    /\ UNCHANGED <<storage, backendVars, providerVars, initVars, lastSettled,
                   hook, screens>>

\* posts.map(...) of likePost: the post of the request takes the reported
\* like state and its count moves by one
LikedPosts(ps, postId, liked) ==
    [k \in 1..Len(ps) |->
        IF ps[k].id = postId
        THEN [id |-> ps[k].id, user_liked |-> liked,
              like_count |-> IF liked THEN ps[k].like_count + 1
                             ELSE ps[k].like_count - 1]
        ELSE ps[k]]

\* POST /social/posts/{id}/like answered: setPosts(posts.map(...)) with the
\* posts of the closure, trackBehavior('post_liked', ...)
likePostThen(c) ==
    /\ c.op = "like" /\ c.status = "answered" /\ c.outcome = "ok"
    /\ posts' = LikedPosts(c.posts, c.post_id, c.liked)
    /\ calls' = Tracked(Remove(c), "post_liked",
                        [post_id |-> c.post_id,
                         action |-> IF c.liked THEN "like" ELSE "unlike"],
                        c.closureUser)
    /\ lastSettled' = Promise("like", "ok", "resolved")
    /\ UNCHANGED <<storage, backendVars, providerVars, initVars, hook, route,
                   journeyVars, chatVars, feedLoading, backendPosts,
                   extraVars>>

\* the like request failed: toast
likePostCatch(c) ==
    /\ c.op = "like" /\ c.status = "answered" /\ c.outcome = "fail"
    /\ calls' = Remove(c)
    /\ lastSettled' = Promise("like", "fail", "resolved")
    /\ UNCHANGED <<storage, backendVars, providerVars, initVars, hook, screens>>

SocialNext ==
    \/ SocialFeedMount
    \/ \E c \in InFlight : backendFeed(c)
    \/ \E c \in InFlight : loadSocialFeedThen(c)
    \/ \E c \in InFlight : loadSocialFeedCatch(c)
    \/ \E p \in PostIds : likePost(p)
    \/ \E c \in InFlight : backendLike(c)
    \/ \E c \in InFlight : backendLikeFail(c)
    \/ \E c \in InFlight : likePostThen(c)
    \/ \E c \in InFlight : likePostCatch(c)

(* ---- SocialFeed composer ------------------------------------------------ *)

\* the user types in the composer (the textarea is never disabled)
setNewPostContent(text) ==
    /\ ~loading /\ route = "/social"
    /\ newPostContent' = text
    /\ UNCHANGED <<storage, backendVars, providerVars, initVars, calls,
                   lastSettled, hook, route, journeyVars, chatVars, socialVars,
                   navVars, isPosting, backendCreated, premiumVars, vrVars,
                   egoVars>>

\* the click on the post button: createPost up to its await; the closure
\* holds the posts and the content of the render the click happened in
createPost ==
    /\ CanCall /\ route = "/social" /\ ~isPosting
    /\ Len(backendCreated) + Requests("post", calls) < MaxPosts
    /\ IF trim(newPostContent) = <<>> \/ user = Null \/ isPosting
          THEN UNCHANGED <<isPosting, calls>>
          ELSE /\ isPosting' = TRUE
               /\ calls' = Add(calls,
                      [op |-> "post", status |-> "sent", outcome |-> "none",
                       user_id |-> user.id,
                       content |-> newPostContent,
                       posts |-> posts,
                       closureUser |-> user])
    /\ UNCHANGED <<storage, backendVars, providerVars, initVars, lastSettled,
                   hook, route, journeyVars, chatVars, socialVars, navVars,
                   newPostContent, backendCreated, premiumVars, vrVars,
                   egoVars>>

\* the backend creates the post, newest first in later feeds, and answers
\* with it
backendCreatePost(c) ==
    /\ c.op = "post" /\ c.status = "sent"
    /\ LET id == NewPostIds[Len(backendCreated) + 1]
       IN  /\ backendCreated' = <<id>> \o backendCreated
           /\ calls' = Replace(c, [c EXCEPT !.status = "answered",
                                            !.outcome = "ok"]
                                  @@ [data |-> [id |-> id]])
    /\ UNCHANGED <<storage, backendVars, providerVars, initVars, lastSettled,
                   hook, route, journeyVars, chatVars, socialVars, navVars,
                   newPostContent, isPosting, premiumVars, vrVars,
                   egoVars>>

\* the post built from response.data
newPost(c) == [id |-> c.data.id, user_liked |-> FALSE, like_count |-> 0]

\* POST /social/posts succeeded: setPosts([newPost, ...posts]) with the
\* posts of the closure, the composer is cleared, 'post_created' is tracked
createPostThen(c) ==
    /\ c.op = "post" /\ c.status = "answered"
    /\ posts' = <<newPost(c)>> \o c.posts
    /\ newPostContent' = <<>>
    /\ isPosting' = FALSE
    /\ calls' = Tracked(Remove(c), "post_created",
                        [content_length |-> Len(c.content)], c.closureUser)
    /\ lastSettled' = Promise("post", "ok", "resolved")
    /\ UNCHANGED <<storage, backendVars, providerVars, initVars, hook, route,
                   journeyVars, chatVars, feedLoading, backendPosts, navVars,
                   backendCreated, premiumVars, vrVars,
                   egoVars>>

createPostCatchNoFinally(c) ==
    /\ c.op = "post" /\ c.status = "sent"
    /\ calls' = Remove(c)
    /\ lastSettled' = Promise("post", "fail", "resolved")
    /\ UNCHANGED <<storage, backendVars, providerVars, initVars, hook, route,
                   journeyVars, chatVars, socialVars, navVars, postVars,
                   premiumVars, vrVars, egoVars>>

\* POST /social/posts failed: toast, finally setIsPosting(false)
createPostCatch(c) ==
    /\ c.op = "post" /\ c.status = "sent"
    /\ isPosting' = FALSE
    /\ calls' = Remove(c)
    /\ lastSettled' = Promise("post", "fail", "resolved")
    /\ UNCHANGED <<storage, backendVars, providerVars, initVars, hook, route,
                   journeyVars, chatVars, socialVars, navVars, newPostContent,
                   backendCreated, premiumVars, vrVars,
                   egoVars>>

PostNext ==
    \/ SocialFeedMount
    \/ \E c \in InFlight : backendFeed(c)
    \/ \E c \in InFlight : loadSocialFeedThen(c)
    \/ \E c \in InFlight : loadSocialFeedCatch(c)
    \/ \E text \in Inputs : setNewPostContent(text)
    \/ createPost
    \/ \E c \in InFlight : backendCreatePost(c)
    \/ \E c \in InFlight : createPostThen(c)
    \/ \E c \in InFlight : createPostCatch(c)

(* ---- MonetizationHub screen --------------------------------------------- *)

\* the keys of subscriptionPlans
Tiers == {"free", "pro", "elite"}

\* premiumFeatures: id and cost
premiumFeatures ==
    {[id |-> "custom_avatar", cost |-> 50],
     [id |-> "premium_challenge", cost |-> 25],
     [id |-> "advanced_insight", cost |-> 30],
     [id |-> "vr_space_access", cost |-> 100]}

\* the features whose unlock button the user clicks: the cheapest and the
\* dearest
ClickedFeatures ==
    {f \in premiumFeatures : f.id \in {"premium_challenge", "vr_space_access"}}

\* the credit packages: package_.amount + package_.bonus
Packages == {100, 550, 1200, 3250}

\* everything but the state of the MonetizationHub screen and the calls
premiumRest ==
    <<storage, backendVars, providerVars, initVars, hook, journeyVars, chatVars,
      socialVars, navVars, postVars, vrVars, egoVars>>

\* a GET of the screen (loadFeatureAccess, loadTransactionHistory) sent for
\* user u: the calls in flight after it
Loading(inflight, op, u) ==
    IF u = Null THEN inflight
    ELSE Add(inflight, [op |-> op, status |-> "sent", outcome |-> "none",
                        user_id |-> u.id])

\* the router shows the screen: with a user its effect adopts the user's
\* tier and credits (the user record carries neither: 'free' and 0), loads
\* feature access and transactions and reports the view
MonetizationHubMount ==
    /\ ~loading /\ route = "/" /\ calls = EmptyBag
    /\ route' = "/premium"
    /\ IF user = Null
          THEN UNCHANGED <<calls, currentTier, credits>>
          ELSE /\ currentTier' = "free"
               /\ credits' = 0
               /\ calls' = Tracked(Loading(Loading(calls, "access", user),
                                           "transactions", user),
                                   "monetization_hub_view", [at |-> "now"], user)
    /\ UNCHANGED <<premiumRest, lastSettled, selectedPlan, isProcessing, backendCredits>>

\* the feature access requests are answered: setFeatureAccess, or the
\* catch (the access data is only displayed and is not kept here)
loadFeatureAccessSettle(c) ==
    /\ c.op = "access" /\ c.status = "sent"
    /\ calls' = Remove(c)
    /\ UNCHANGED <<premiumRest, route, lastSettled, premiumVars>>

\* the timer set by a successful subscription fires: loadFeatureAccess
loadFeatureAccessTimer(c) ==
    /\ c.op = "timer" /\ c.callback = "loadFeatureAccess"
    /\ calls' = Loading(Remove(c), "access", c.closureUser)
    /\ UNCHANGED <<premiumRest, route, lastSettled, premiumVars, vrVars,
                   egoVars>>

\* the transactions request is answered: setTransactions, or the catch
\* (the transactions are only displayed and are not kept here)
loadTransactionHistorySettle(c) ==
    /\ c.op = "transactions" /\ c.status = "sent"
    /\ calls' = Remove(c)
    /\ UNCHANGED <<premiumRest, route, lastSettled, premiumVars>>

\* a click on the button of a plan (disabled for the current plan, while
\* processing and for the selected plan): handleSubscribe up to its await
handleSubscribe(tier) ==
    /\ CanCall /\ route = "/premium"
    /\ tier # currentTier /\ ~isProcessing /\ selectedPlan # tier
    /\ IF user = Null \/ isProcessing
          THEN UNCHANGED <<calls, isProcessing, selectedPlan>>
          ELSE /\ isProcessing' = TRUE
               /\ selectedPlan' = tier
               /\ calls' = Add(calls,
                      [op |-> "subscribe", status |-> "sent", outcome |-> "none",
                       user_id |-> user.id, tier |-> tier,
                       closureUser |-> user])
    /\ UNCHANGED <<premiumRest, route, lastSettled, currentTier, credits, backendCredits>>

\* POST /monetization/subscribe answered 2xx: with an error field a toast,
\* else the tier is adopted, the event tracked and the reload timer set;
\* finally
handleSubscribeThen(c, error) ==
    /\ c.op = "subscribe" /\ c.status = "sent"
    /\ IF error
          THEN /\ calls' = Remove(c)
               /\ UNCHANGED currentTier
          ELSE /\ currentTier' = c.tier
               /\ calls' = Add(Tracked(Remove(c), "subscription_created",
                                       [tier |-> c.tier], c.closureUser),
                               [op |-> "timer", status |-> "set",
                                callback |-> "loadFeatureAccess",
                                closureUser |-> c.closureUser])
    /\ isProcessing' = FALSE
    /\ selectedPlan' = "<null>"
    /\ lastSettled' = Promise("subscribe", IF error THEN "error" ELSE "ok", "resolved")
    /\ UNCHANGED <<premiumRest, route, credits, backendCredits>>

\* the request failed: toast, finally
handleSubscribeCatch(c) ==
    /\ c.op = "subscribe" /\ c.status = "sent"
    /\ calls' = Remove(c)
    /\ isProcessing' = FALSE
    /\ selectedPlan' = "<null>"
    /\ lastSettled' = Promise("subscribe", "fail", "resolved")
    /\ UNCHANGED <<premiumRest, route, currentTier, credits, backendCredits>>

\* a click on a credit package (disabled while processing): purchaseCredits
\* up to its await; the closure holds the credits of the render
purchaseCredits(amount) ==
    /\ CanCall /\ route = "/premium" /\ ~isProcessing
    /\ credits + amount <= MaxCredits
    /\ IF user = Null \/ isProcessing
          THEN UNCHANGED <<calls, isProcessing>>
          ELSE /\ isProcessing' = TRUE
               /\ calls' = Add(calls,
                      [op |-> "purchase", status |-> "sent", outcome |-> "none",
                       user_id |-> user.id, amount |-> amount,
                       credits |-> credits, closureUser |-> user])
    /\ UNCHANGED <<premiumRest, route, lastSettled, currentTier, credits,
                   selectedPlan, backendCredits>>

purchaseCreditsThenIgnoreError(c, error) ==
    /\ c.op = "purchase" /\ c.status = "sent"
    /\ backendCredits' = IF error THEN backendCredits
                         ELSE backendCredits + c.amount
    /\ credits' = c.credits + c.amount
    /\ calls' = Loading(Tracked(Remove(c), "credits_purchased",
                                [amount |-> c.amount], c.closureUser),
                        "transactions", c.closureUser)
    /\ isProcessing' = FALSE
    /\ lastSettled' = Promise("purchase", IF error THEN "error" ELSE "ok", "resolved")
    /\ UNCHANGED <<premiumRest, route, currentTier, selectedPlan>>

\* POST /monetization/credits/purchase answered 2xx: with an error field a
\* toast, else setCredits(credits + amount), the event is tracked and the
\* transactions are reloaded; finally
purchaseCreditsThen(c, error) ==
    /\ c.op = "purchase" /\ c.status = "sent"
    /\ IF error
          THEN /\ calls' = Remove(c)
               /\ UNCHANGED <<credits, backendCredits>>
          ELSE /\ backendCredits' = backendCredits + c.amount
               /\ credits' = c.credits + c.amount
               /\ calls' = Loading(Tracked(Remove(c), "credits_purchased",
                                           [amount |-> c.amount], c.closureUser),
                                   "transactions", c.closureUser)
    /\ isProcessing' = FALSE
    /\ lastSettled' = Promise("purchase", IF error THEN "error" ELSE "ok", "resolved")
    /\ UNCHANGED <<premiumRest, route, currentTier, selectedPlan>>

\* the request failed: toast, finally
purchaseCreditsCatch(c) ==
    /\ c.op = "purchase" /\ c.status = "sent"
    /\ calls' = Remove(c)
    /\ isProcessing' = FALSE
    /\ lastSettled' = Promise("purchase", "fail", "resolved")
    /\ UNCHANGED <<premiumRest, route, currentTier, credits, selectedPlan, backendCredits>>

\* unlockFeature(feature.id) up to its await: nothing is sent when the
\* credits of the render are below the cost
unlockFeature(feature) ==
    /\ CanCall /\ route = "/premium" /\ ~isProcessing
    /\ IF user = Null \/ isProcessing \/ credits < feature.cost
          THEN UNCHANGED <<calls, isProcessing>>
          ELSE /\ isProcessing' = TRUE
               /\ calls' = Add(calls,
                      [op |-> "unlock", status |-> "sent", outcome |-> "none",
                       user_id |-> user.id, feature_id |-> feature.id,
                       cost |-> feature.cost, closureUser |-> user])
    /\ UNCHANGED <<premiumRest, route, lastSettled, currentTier, credits,
                   selectedPlan, backendCredits>>

\* POST /monetization/features/unlock answered 2xx: the backend either
\* refuses with an error field or deducts the cost from the balance it holds
\* and reports the rest; setCredits(response.data.remaining_credits), the
\* event is tracked and the transactions are reloaded; finally
unlockFeatureThen(c, error) ==
    /\ c.op = "unlock" /\ c.status = "sent"
    /\ IF error
          THEN /\ calls' = Remove(c)
               /\ UNCHANGED <<credits, backendCredits>>
          ELSE /\ backendCredits >= c.cost
               /\ backendCredits' = backendCredits - c.cost
               /\ credits' = backendCredits - c.cost
               /\ calls' = Loading(Tracked(Remove(c), "feature_unlocked",
                                           [feature_id |-> c.feature_id,
                                            cost |-> c.cost], c.closureUser),
                                   "transactions", c.closureUser)
    /\ isProcessing' = FALSE
    /\ lastSettled' = Promise("unlock", IF error THEN "error" ELSE "ok", "resolved")
    /\ UNCHANGED <<premiumRest, route, currentTier, selectedPlan>>

\* the request failed: toast, finally
unlockFeatureCatch(c) ==
    /\ c.op = "unlock" /\ c.status = "sent"
    /\ calls' = Remove(c)
    /\ isProcessing' = FALSE
    /\ lastSettled' = Promise("unlock", "fail", "resolved")
    /\ UNCHANGED <<premiumRest, route, currentTier, credits, selectedPlan, backendCredits>>

PremiumNext ==
    \/ MonetizationHubMount
    \/ \E c \in InFlight : loadFeatureAccessSettle(c)
    \/ \E c \in InFlight : loadFeatureAccessTimer(c)
    \/ \E c \in InFlight : loadTransactionHistorySettle(c)
    \/ \E tier \in Tiers : handleSubscribe(tier)
    \/ \E c \in InFlight, error \in BOOLEAN : handleSubscribeThen(c, error)
    \/ \E c \in InFlight : handleSubscribeCatch(c)
    \/ \E amount \in Packages : purchaseCredits(amount)
    \/ \E c \in InFlight, error \in BOOLEAN : purchaseCreditsThen(c, error)
    \/ \E c \in InFlight : purchaseCreditsCatch(c)
    \/ \E feature \in ClickedFeatures : unlockFeature(feature)
    \/ \E c \in InFlight, error \in BOOLEAN : unlockFeatureThen(c, error)
    \/ \E c \in InFlight : unlockFeatureCatch(c)

(* ---- VRExplorer screen -------------------------------------------------- *)

\* the ids of demoSpaces
demoSpaces == {"1", "2", "3"}

\* everything but the state of the VRExplorer screen and the calls
vrRest ==
    <<storage, backendVars, providerVars, initVars, hook, journeyVars, chatVars,
      socialVars, navVars, postVars, premiumVars, egoVars>>

\* the router shows the screen: with a user its effect sets the demo spaces
\* and reports the view
VRExplorerMount ==
    /\ ~loading /\ route = "/" /\ calls = EmptyBag
    /\ route' = "/vr"
    /\ IF user = Null
          THEN UNCHANGED <<calls, virtualSpaces>>
          ELSE /\ virtualSpaces' = demoSpaces
               /\ calls' = Tracked(calls, "vr_explorer_view", [at |-> "now"], user)
    /\ UNCHANGED <<vrRest, lastSettled, currentSpace, isInVR>>

\* a click on the card of a space (the cards are shown while not in VR):
\* the space is entered, the event tracked and the timer set whose callback
\* is the exitVR of this render
joinVirtualSpace(spaceId) ==
    /\ CanCall /\ route = "/vr" /\ ~isInVR
    /\ spaceId \in virtualSpaces
    /\ IF user = Null
          THEN UNCHANGED <<calls, currentSpace, isInVR>>
          ELSE /\ currentSpace' = spaceId
               /\ isInVR' = TRUE
               /\ calls' = Add(Tracked(calls, "vr_space_joined",
                                       [space_id |-> spaceId], user),
                               [op |-> "timer", status |-> "set",
                                callback |-> "exitVR", joined |-> spaceId,
                                currentSpace |-> currentSpace,
                                closureUser |-> user])
    /\ UNCHANGED <<vrRest, route, lastSettled, virtualSpaces>>

\* a click on Exit VR: exitVR of the current render
exitVR ==
    /\ ~loading /\ route = "/vr" /\ isInVR
    /\ isInVR' = FALSE
    /\ currentSpace' = "<null>"
    /\ calls' = Tracked(calls, "vr_space_exited", [space_id |-> currentSpace], user)
    /\ UNCHANGED <<vrRest, route, lastSettled, virtualSpaces>>

\* the 30 second timer of a join fires: exitVR of the render the join
\* happened in
exitVRTimer(c) ==
    /\ c.op = "timer" /\ c.callback = "exitVR"
    /\ isInVR' = FALSE
    /\ currentSpace' = "<null>"
    /\ calls' = Tracked(Remove(c), "vr_space_exited",
                        [space_id |-> c.currentSpace], c.closureUser)
    /\ UNCHANGED <<vrRest, route, lastSettled, virtualSpaces>>

VRNext ==
    \/ VRExplorerMount
    \/ \E spaceId \in demoSpaces : joinVirtualSpace(spaceId)
    \/ exitVR
    \/ \E c \in InFlight : exitVRTimer(c)

(* ---- EgoCore screen ----------------------------------------------------- *)

\* everything but the state of the EgoCore screen and the calls
egoRest ==
    <<storage, backendVars, providerVars, initVars, hook, journeyVars, chatVars,
      socialVars, navVars, postVars, premiumVars, vrVars>>

\* the router shows the screen (a landing-page card and the route itself
\* lead to it without a mode switch): its effect reports 'egocore_enter',
\* fetches the prompt of mode 'egocore' and calls getUserInsights
EgoCoreMount ==
    /\ ~loading /\ route = "/" /\ calls = EmptyBag
    /\ route' = "/egocore"
    /\ calls' =
         IF user = Null THEN calls
         ELSE Add(Add(Tracked(calls, "egocore_enter", [at |-> "now"], user),
                      [op |-> "egoPrompt", status |-> "sent", outcome |-> "none",
                       user_id |-> user.id, mode |-> "egocore"]),
                  [op |-> "insights", status |-> "sent", outcome |-> "none",
                   user_id |-> user.id])
    /\ UNCHANGED <<egoRest, lastSettled, egoVars>>

\* GET /journey/{id}/prompts answered: setPersonalizedPrompt, or the catch
fetchEgoPromptSettle(c) ==
    /\ c.op = "egoPrompt" /\ c.status = "sent"
    /\ \E ok \in BOOLEAN : egoPrompt' = IF ok THEN <<"prompt">> ELSE egoPrompt
    /\ calls' = Remove(c)
    /\ UNCHANGED <<egoRest, route, lastSettled, userInput, aiResponse,
                   egoIsLoading, egoPersonality>>

\* the user types (the textarea is never disabled)
setUserInput(text) ==
    /\ ~loading /\ route = "/egocore"
    /\ userInput' = text
    /\ UNCHANGED <<egoRest, route, calls, lastSettled, aiResponse, egoIsLoading,
                   egoPersonality, egoPrompt>>

\* Ctrl+Enter in the textarea, or a click on the button: handleAIInteraction
\* up to its await; the request names the mode 'egocore'
handleAIInteraction ==
    /\ CanCall /\ route = "/egocore"
    /\ IF trim(userInput) = <<>> \/ user = Null
          THEN UNCHANGED <<calls, egoIsLoading>>
          ELSE /\ egoIsLoading' = TRUE
               /\ calls' = Add(calls,
                      [op |-> "egochat", status |-> "sent", outcome |-> "none",
                       user_id |-> user.id,
                       message |-> userInput,
                       mode |-> "egocore",
                       personality_state |-> egoPersonality,
                       closureUser |-> user])
    /\ UNCHANGED <<egoRest, route, lastSettled, userInput, aiResponse,
                   egoPersonality, egoPrompt>>

\* POST /ai/chat succeeded: the response is shown, the input cleared, the
\* personality updated and 'ai_interaction' tracked; finally
handleAIInteractionThen(c) ==
    /\ c.op = "egochat" /\ c.status = "sent"
    /\ aiResponse' = [reply |-> c.message]
    /\ userInput' = <<>>
    /\ egoPersonality' = "traits"
    /\ egoIsLoading' = FALSE
    /\ calls' = Tracked(Remove(c), "ai_interaction",
                        [user_message |-> c.message], c.closureUser)
    /\ lastSettled' = Promise("egochat", "ok", "resolved")
    /\ UNCHANGED <<egoRest, route, egoPrompt>>

\* POST /ai/chat failed: toast; finally
handleAIInteractionCatch(c) ==
    /\ c.op = "egochat" /\ c.status = "sent"
    /\ egoIsLoading' = FALSE
    /\ calls' = Remove(c)
    /\ lastSettled' = Promise("egochat", "fail", "resolved")
    /\ UNCHANGED <<egoRest, route, userInput, aiResponse, egoPersonality,
                   egoPrompt>>

EgoNext ==
    \/ EgoCoreMount
    \/ \E c \in InFlight : fetchEgoPromptSettle(c)
    \/ \E c \in InFlight : backendInsights(c)
    \/ \E c \in InFlight : backendInsightsFail(c)
    \/ \E c \in InFlight : getUserInsightsThen(c)
    \/ \E c \in InFlight : getUserInsightsCatch(c)
    \/ \E text \in Inputs : setUserInput(text)
    \/ handleAIInteraction
    \/ \E c \in InFlight : handleAIInteractionThen(c)
    \/ \E c \in InFlight : handleAIInteractionCatch(c)

(* ---- NavigationMenu ----------------------------------------------------- *)

\* the items of the menu: two of them carry a mode
menuItems ==
    {[id |-> "home", path |-> "/"],
     [id |-> "echoverse", path |-> "/echoverse", mode |-> "echoverse"],
     [id |-> "egocore", path |-> "/egocore", mode |-> "egocore"],
     [id |-> "chat", path |-> "/chat"],
     [id |-> "social", path |-> "/social"],
     [id |-> "vr", path |-> "/vr"],
     [id |-> "premium", path |-> "/premium"],
     [id |-> "profile", path |-> "/profile"]}

\* item.mode && item.mode !== currentMode
ItemSwitches(item) == "mode" \in DOMAIN item /\ item.mode # currentMode

\* switchMode called from another handler, which does not await it: the
\* calls in flight after it
Switched(inflight, mode) ==
    IF user = Null THEN inflight
    ELSE Add(inflight,
             [op |-> "mode", status |-> "sent", outcome |-> "none",
              user_id |-> user.id, mode |-> mode,
              from |-> currentMode, closureUser |-> user])

\* the menu button: setIsOpen(!isOpen)
toggleMenu ==
    /\ ~loading
    /\ isOpen' = ~isOpen
    /\ UNCHANGED <<storage, backendVars, providerVars, initVars, calls,
                   lastSettled, hook, route, journeyVars, chatVars, socialVars,
                   pageVars>>

handleNavigationAlways(item) ==
    /\ CanCall /\ isOpen
    /\ IF "mode" \in DOMAIN item
          THEN /\ calls' = Switched(calls, item.mode)
               /\ lastSettled' = IF user = Null
                                 THEN Promise("mode", "none", "resolved")
                                 ELSE lastSettled
          ELSE UNCHANGED <<calls, lastSettled>>
    /\ route' = item.path
    /\ isOpen' = FALSE
    /\ UNCHANGED <<storage, backendVars, providerVars, initVars, hook,
                   journeyVars, chatVars, socialVars, pageVars>>

\* a click on an item of the open menu: switchMode when the item's mode
\* differs, navigate(item.path), setIsOpen(false); the effects of the screen
\* the router then mounts are steps of that screen
handleNavigation(item) ==
    /\ CanCall /\ isOpen
    /\ IF ItemSwitches(item)
          THEN /\ calls' = Switched(calls, item.mode)
               /\ lastSettled' = IF user = Null
                                 THEN Promise("mode", "none", "resolved")
                                 ELSE lastSettled
          ELSE UNCHANGED <<calls, lastSettled>>
    /\ route' = item.path
    /\ isOpen' = FALSE
    /\ UNCHANGED <<storage, backendVars, providerVars, initVars, hook,
                   journeyVars, chatVars, socialVars, pageVars>>

NavNext ==
    \/ toggleMenu
    \/ \E item \in menuItems : handleNavigation(item)

(* ---- useApp ------------------------------------------------------------ *)

\* createContext() is given no default: outside a provider the context
\* value is undefined

\* the object AppProvider passes to AppContext.Provider (the state fields;
\* the function-valued fields are the actions of this module)
contextValue ==
    [user |-> user, currentMode |-> currentMode, loading |-> loading,
     userInsights |-> userInsights]

useContext(inside) == IF inside THEN contextValue ELSE Undefined

\* !context
Not(v) == v \in {Undefined, Null}

useAppNoCheck(inside) == [threw |-> FALSE, context |-> useContext(inside)]

\* the hook: throws when there is no context, else returns it
useApp(inside) ==
    IF Not(useContext(inside))
    THEN [threw |-> TRUE]
    ELSE [threw |-> FALSE, context |-> useContext(inside)]

\* a component renders and calls useApp, inside AppProvider or outside it
UseApp(inside) ==
    /\ hook' = [called |-> TRUE, inside |-> inside, result |-> useApp(inside)]
    /\ UNCHANGED <<storage, backendVars, providerVars, initVars, calls, lastSettled, screens>>

HookNext == \E inside \in BOOLEAN : UseApp(inside)

(* ---- the operations of the context value ------------------------------ *)

\* any consumer may call the four operations the context value exposes
ConsumerCall ==
    /\ BagCardinality(calls) < MaxConsumerCalls
    /\ \/ \E m \in Modes : switchMode(m)
       \/ trackBehavior
       \/ \E rs \in {NoResponses, Questions} : updateUserJourney(StepIds[1], rs)
       \/ getUserInsights

ProviderNext ==
    \/ ConsumerCall
    \/ SwitchSettle
    \/ TrackSettle
    \/ \E c \in InFlight : updateUserJourneyThen(c)
    \/ \E c \in InFlight : updateUserJourneyCatch(c)
    \/ \E c \in InFlight : backendInsights(c)
    \/ \E c \in InFlight : backendInsightsFail(c)
    \/ \E c \in InFlight : getUserInsightsThen(c)
    \/ \E c \in InFlight : getUserInsightsCatch(c)

(* ---- the provider specification ---------------------------------------- *)

Next ==
    \/ InitNext
    \/ SwitchNext
    \/ trackBehavior
    \/ TrackSettle

Spec == Init /\ [][Next]_vars

\* every request of initializeUser is answered and every continuation runs
FairSpec == Spec /\ WF_vars(InitNext)

\* components calling the hook while the provider initializes and switches
HookSpec == Init /\ [][InitNext \/ HookNext \/ SwitchNext]_vars

\* initialization, then consumers calling the provider's operations
ProviderSpec == Init /\ [][InitNext \/ ProviderNext]_vars

\* initialization, then screens fetching insights
InsightsSpec == Init /\ [][InitNext \/ InsightsNext]_vars

\* the journey screen: initialization, then the EchoVerse screen
JourneySpec == Init /\ [][InitNext \/ JourneyNext \/ TrackSettle]_vars

\* the chat screen alone
ChatOnlySpec == Init /\ [][InitNext \/ ChatNext \/ TrackSettle]_vars

\* the chat screen, with the mode toggle of the navigation menu
ChatSpec ==
    Init /\ [][InitNext \/ ChatNext \/ ChatModeToggle \/ SwitchSettle \/ TrackSettle]_vars

\* the social feed
SocialSpec == Init /\ [][InitNext \/ SocialNext \/ TrackSettle]_vars

\* the navigation menu
NavSpec == Init /\ [][InitNext \/ NavNext \/ SwitchSettle \/ TrackSettle]_vars

\* what App renders once loading is false: the menu button, and consumers
\* calling the provider's operations
AppSpec == Init /\ [][InitNext \/ ProviderNext \/ toggleMenu]_vars

\* the two screens that submit: the router shows the chat screen or the
\* journey screen
SubmitSpec == Init /\ [][InitNext \/ ChatNext \/ JourneyNext \/ TrackSettle]_vars

\* the social feed with its composer: the feed is loaded, posts are created
PostSpec == Init /\ [][InitNext \/ PostNext \/ TrackSettle]_vars

\* the monetization screen
PremiumSpec == Init /\ [][InitNext \/ PremiumNext \/ TrackSettle]_vars

\* the VR screen
VRSpec == Init /\ [][InitNext \/ VRNext \/ TrackSettle]_vars

\* the two screens that talk to the AI: the router shows the chat screen or
\* the EgoCore screen
AISpec == Init /\ [][InitNext \/ ChatNext \/ EgoNext \/ TrackSettle]_vars

\* the four screens that keep a busy flag: the router shows the chat, the
\* journey, the social feed or the monetization screen (of the journey the
\* steps that lead to a submission and settle it)
BusySpec ==
    Init /\ [][InitNext \/ ChatNext \/ JourneySubmitNext \/ PostNext \/ PremiumNext
                 \/ TrackSettle]_vars

(* ======================================================================== *)
(* Claims                                                                   *)
(* ======================================================================== *)

\* C1: with a user loaded, every switchMode(m) call sets the current mode to
\* m at once, before and whatever the backend answers.
C1_SwitchIsOptimistic ==
    [][\A m \in Modes : (user # Null /\ switchMode(m)) => currentMode' = m]_vars

\* C2 (as stated): after initialization that found no persisted identifier,
\* or whose lookup failed, the current user is never null.
C2_DemoUserAlwaysProduced ==
    (initPc = "done" /\ (savedUserId = NoItem \/ caught)) => user # Null

\* C2 (amended): after such an initialization the current user is non-null
\* exactly when the user-creation request succeeded, and is then the
\* created user.
C2_DemoUserIffCreated ==
    (initPc = "done" /\ (savedUserId = NoItem \/ caught)) =>
        /\ (user # Null) <=> (createOutcome = "ok")
        /\ user # Null => user.id = DemoId

C2_Witness ==
    initPc = "done" /\ caught /\ createOutcome = "ok" /\ user # Null

\* C3: the loading flag starts true, is eventually cleared, is cleared only
\* when no lookup or creation attempt is pending, is cleared exactly once,
\* and is never true again.
C3_LoadingClearedOnce ==
    /\ loading = TRUE
    /\ <>(~loading)
    /\ [](loadingClears <= 1)
    /\ [](loading <=> loadingClears = 0)
    /\ [](~loading => initPc = "done")
    /\ [][~loading => ~loading']_vars

C3_Witness ==
    ~loading /\ loadingClears = 1 /\ caught /\ createOutcome = "fail"

\* C4: initialization with no persisted identifier and a failing user
\* creation ends with no user, loading cleared, nothing in local storage and
\* a resolved (not rejected) initialization promise.
C4_CreateFailureIsSwallowed ==
    (initPc = "done" /\ savedUserId = NoItem /\ createOutcome = "fail") =>
        /\ user = Null
        /\ ~loading
        /\ storage = NoItem
        /\ initPromise = "resolved"

C4_Witness ==
    initPc = "done" /\ savedUserId = NoItem /\ createOutcome = "fail"

\* C5: the promise of a trackBehavior call resolves and never rejects,
\* whatever the backend answers and with or without a user, and a failed
\* tracking request changes no provider state.
C5_TrackNeverRejects ==
    /\ [](lastSettled.op = "track" => lastSettled.status = "resolved")
    /\ [][(\E c \in InFlight : trackBehaviorCatch(c)) =>
            UNCHANGED <<providerVars, storage>>]_vars

C5_Witness ==
    lastSettled = Promise("track", "fail", "resolved")

\* C6: after updateUserJourney(step, responses) completed with a successful
\* backend round trip, the current user's journey progress for that step is
\* the submitted responses.
C6_LocalJourneyReflectsStep ==
    [][\A c \in InFlight : updateUserJourneyThen(c) =>
          user'.journey_progress[c.step] = c.responses]_vars

\* C7: when the backend call of updateUserJourney fails the promise still
\* resolves, and user, mode, insights and loading flag stay as they were.
C7_JourneyFailureIsSwallowed ==
    /\ [](lastSettled.op = "journey" => lastSettled.status = "resolved")
    /\ [][(\E c \in InFlight : updateUserJourneyCatch(c)) =>
            UNCHANGED providerVars]_vars

C7_Witness ==
    lastSettled = Promise("journey", "fail", "resolved")

\* C8: a mode switch that takes effect while a chat request is in flight
\* neither cancels nor alters the chat: when the request settles, the chat
\* list ends with the request's user message followed by its reply or the
\* fallback.
C8_SwitchLeavesChatIntact ==
    [][\A c \in InFlight :
          (c.op = "chat" /\ c.mode # currentMode
              /\ (sendMessageThen(c) \/ sendMessageCatch(c)))
          => /\ Len(messages') >= 2
             /\ messages'[Len(messages') - 1] = userMessage(c.message)
             /\ messages'[Len(messages')] \in {aiMessage(c), errorMessage}]_vars

\* C9: a post displayed unliked with count n is liked twice before the first
\* response is applied; once both responses are applied the post is shown
\* as the second response reports: unliked, with count n.
C9_DoubleLikeShowsSecondResponse ==
    [][\A c \in InFlight :
          (/\ c.op = "like" /\ c.status = "answered" /\ c.outcome = "ok"
           /\ likePostThen(c)
           /\ ~c.liked
           /\ \A d \in InFlight : d.op = "like" => d = c /\ CopiesIn(c, calls) = 1
           /\ \E k \in PostIndex(c.posts, c.post_id) : ~c.posts[k].user_liked)
          => \A k \in PostIndex(posts', c.post_id) :
                /\ posts'[k].user_liked = FALSE
                /\ \E j \in PostIndex(c.posts, c.post_id) :
                      posts'[k].like_count = c.posts[j].like_count]_vars

\* C11: while no user is loaded, calling switchMode, trackBehavior,
\* updateUserJourney or getUserInsights sends no request, emits no behavior
\* event, and leaves mode, insights, user and loading flag unchanged.
C11_NoUserNoOp ==
    /\ [](user = Null => calls = EmptyBag)
    /\ [][(user = Null /\ ~loading)
            => UNCHANGED <<providerVars, calls, backendVars, storage>>]_vars
    /\ []((lastSettled # NoPromise /\ lastSettled.outcome = "none")
            => lastSettled.status = "resolved")

C11_Witness ==
    /\ user = Null /\ ~loading /\ calls = EmptyBag
    /\ lastSettled = Promise("journey", "none", "resolved")

\* C12: every switchMode(m) call made with a user loaded emits exactly one
\* 'mode_switch' event whatever the backend answers, whose 'from' is the
\* mode active just before the call takes effect and whose 'to' is m.
C12_SwitchEmitsTransition ==
    [][\A c \in InFlight :
          /\ switchModeCatch(c)
                => Requests("track", calls') = Requests("track", calls) + 1
          /\ switchModeThen(c)
                => LET ev == TrackRequest("mode_switch",
                                         [from |-> currentMode, to |-> c.mode],
                                         c.closureUser)
                   IN  /\ Requests("track", calls') = Requests("track", calls) + 1
                       /\ CopiesIn(ev, calls') = CopiesIn(ev, calls) + 1]_vars

\* C13: updateUserJourney emits a 'journey_progress' event exactly when its
\* step request succeeded, the backend then holds the step, and a failed
\* tracking request of that event changes nothing of the journey.
C13_JourneyEventIffSuccess ==
    [][(calls' # calls) =>
        /\ \A c \in InFlight :
            (c.op = "journey" /\ CopiesIn(c, calls') < CopiesIn(c, calls))
            => LET ev == TrackRequest("journey_progress",
                                     [step |-> c.step, responses |-> c.responses],
                                     c.closureUser)
               IN  /\ lastSettled'.op = "journey"
                   /\ lastSettled'.status = "resolved"
                   /\ CopiesIn(ev, calls') = CopiesIn(ev, calls) +
                         (IF lastSettled'.outcome = "ok" THEN 1 ELSE 0)
        /\ \A ev \in BagToSet(calls') :
            (ev.op = "track" /\ ev.event_type = "journey_progress"
                /\ CopiesIn(ev, calls') > CopiesIn(ev, calls))
            => /\ lastSettled' = Promise("journey", "ok", "resolved")
               /\ backendJourney'[ev.user_id][ev.event_data.step]
                     = ev.event_data.responses
        /\ \A c \in InFlight :
            (c.op = "track" /\ c.event_type = "journey_progress"
                /\ lastSettled' = Promise("track", "fail", "resolved")
                /\ trackBehaviorCatch(c))
            => UNCHANGED <<backendJourney, journeyVars, route, providerVars,
                   extraVars>>]_vars

C13_Witness ==
    /\ lastSettled = Promise("journey", "ok", "resolved")
    /\ currentStep = 1
    /\ \E ev \in InFlight : ev.op = "track" /\ ev.event_type = "journey_progress"
                             /\ ev.event_data.step = "essence"

\* C14: a successful getUserInsights replaces the insights by the response
\* body; a failed one leaves the insights as they are and resolves.
C14_InsightsReplacedOrKept ==
    /\ [][\A c \in InFlight :
            (c.op = "insights" /\ c.status = "answered"
                /\ CopiesIn(c, calls') < CopiesIn(c, calls))
            => IF c.outcome = "ok"
               THEN userInsights' = c.data
               ELSE userInsights' = userInsights]_vars
    /\ [][userInsights' # userInsights
            => \E c \in InFlight : c.op = "insights" /\ c.status = "answered"
                                    /\ c.outcome = "ok"]_vars
    /\ [](lastSettled.op = "insights" => lastSettled.status = "resolved")

C14_Witness ==
    /\ userInsights = [insights |-> <<"i2">>]
    /\ lastSettled = Promise("insights", "fail", "resolved")
    /\ \E c \in InFlight : c.op = "insights" /\ c.status = "answered"
                            /\ c.outcome = "ok" /\ c.data = [insights |-> <<"i1">>]

\* C18: no operation retries.  Initialization sends at most one lookup and
\* at most one creation request; no step sends more than one request of an
\* operation; and the continuation of a request that failed or succeeded
\* sends no further request of its operation.
C18_NoRetry ==
    /\ [](initRequests.lookup <= 1 /\ initRequests.create <= 1)
    /\ [][\A op \in {"mode", "track", "journey", "insights"} :
            Requests(op, calls') <= Requests(op, calls) + 1]_vars
    /\ [][\A c \in InFlight :
            (\/ switchModeCatch(c) \/ trackBehaviorCatch(c) \/ trackBehaviorThen(c)
             \/ updateUserJourneyCatch(c) \/ getUserInsightsCatch(c)
             \/ getUserInsightsThen(c))
            => calls' = Remove(c)]_vars
    /\ [][\A c \in InFlight :
            (switchModeThen(c) \/ updateUserJourneyThen(c))
            => /\ Requests(c.op, calls') = Requests(c.op, calls) - 1
               /\ Requests("track", calls') = Requests("track", calls) + 1]_vars

C18_Witness ==
    /\ calls = EmptyBag
    /\ lastSettled = Promise("journey", "fail", "resolved")
    /\ initRequests = [lookup |-> 1, create |-> 1]
    /\ backendJourney[DemoId][StepIds[1]] = NoResponses

\* C15: when a persisted identifier exists and its lookup succeeds,
\* initialization adopts the fetched user and that user's stored mode, sends
\* no creation request and leaves the persisted identifier as it was.
C15_LookupSuccessAdoptsUser ==
    /\ [][(initPc = "getUser" /\ initPc' = "done")
            => /\ user' = BackendUser(savedUserId)
               /\ currentMode' = backendMode[savedUserId]
               /\ storage' = storage]_vars
    /\ []((initPc = "done" /\ savedUserId # NoItem /\ ~caught)
            => /\ user # Null
               /\ user.id = savedUserId
               /\ initRequests.create = 0
               /\ createOutcome = "none"
               /\ storage = savedUserId)

C15_Witness ==
    /\ initPc = "done" /\ savedUserId = SavedId /\ ~caught
    /\ user # Null /\ user.current_mode = "egocore" /\ currentMode = "egocore"
    /\ storage = SavedId

\* C16: when the lookup of a persisted identifier fails, exactly one
\* creation request is sent; if it succeeds the current user is the created
\* user, the persisted identifier is overwritten with that user's id, and the
\* current mode stays the default mode.
C16_LookupFailureFallsBackOnce ==
    /\ [](caught => initRequests.create = 1)
    /\ []((caught /\ loading) => currentMode = "echoverse")
    /\ [][(caught /\ initPc = "createUser" /\ createOutcome' = "ok")
            => /\ user' # Null
               /\ user'.id = DemoId
               /\ storage' = DemoId
               /\ storage' # savedUserId
               /\ currentMode' = "echoverse"]_vars
    /\ []((initPc = "done" /\ caught /\ createOutcome = "ok")
            => user # Null /\ user.id = DemoId /\ storage = DemoId)

C16_Witness ==
    /\ initPc = "done" /\ caught /\ createOutcome = "ok"
    /\ savedUserId = SavedId /\ storage = DemoId
    /\ user # Null /\ user.current_mode = "egocore" /\ currentMode = "echoverse"
    /\ calls = EmptyBag /\ lastSettled = NoPromise

\* C17: the persisted identifier changes only when a creation request has
\* succeeded, is never removed, and once initialization has completed with a
\* user it equals that user's id.
C17_StorageFollowsUser ==
    /\ [][storage' # storage
            => /\ initPc = "createUser" /\ createOutcome' = "ok"
               /\ user' # Null /\ storage' = user'.id]_vars
    /\ [][storage # NoItem => storage' # NoItem]_vars
    /\ []((initPc = "done" /\ user # Null) => storage = user.id)

C17_Witness ==
    /\ initPc = "done" /\ user # Null /\ user.id = DemoId /\ storage = DemoId
    /\ savedUserId = SavedId /\ calls # EmptyBag

\* C19: the current mode is one of the two modes in every state.
C19_ModeIsAMode == currentMode \in Modes

C19_Witness ==
    /\ currentMode = "egocore" /\ createOutcome = "ok"
    /\ lastSettled = Promise("mode", "ok", "resolved")
    /\ user # Null /\ user.current_mode = "echoverse"

\* C20: an accepted sendMessage appends the user's message; when its request
\* settles, the reply (on success) or the fallback (on failure) is appended,
\* the promise resolves and isLoading is cleared; nothing else appends to the
\* chat list.
C20_ChatAppendsUserThenReply ==
    /\ [][\A c \in BagToSet(calls') :
            (c.op = "chat" /\ CopiesIn(c, calls') > CopiesIn(c, calls))
            => messages' = Append(messages, userMessage(c.message))]_vars
    /\ [][\A c \in InFlight :
            (c.op = "chat" /\ CopiesIn(c, calls') < CopiesIn(c, calls))
            => /\ lastSettled'.op = "chat"
               /\ lastSettled'.status = "resolved"
               /\ ~isLoading'
               /\ messages' = Append(messages,
                                     IF lastSettled'.outcome = "ok"
                                     THEN aiMessage(c) ELSE errorMessage)]_vars
    /\ [][messages' # messages
            => \/ Requests("chat", calls') # Requests("chat", calls)
               \/ messages' = <<welcomeMessage(currentMode')>>]_vars
    /\ [](Requests("chat", calls) > 0
            => \/ messages = <<welcomeMessage(currentMode)>>
               \/ \E c \in InFlight :
                     c.op = "chat" /\ messages[Len(messages)] = userMessage(c.message))

C20_Witness ==
    /\ Len(messages) = 3
    /\ messages[2] = userMessage(<<" ", "a">>)
    /\ messages[3] = errorMessage
    /\ ~isLoading
    /\ lastSettled = Promise("chat", "fail", "resolved")

\* C10: useApp throws when called outside AppProvider and never throws
\* inside it, in every provider state.
C10_UseAppThrowsOnlyOutside ==
    hook.called => (hook.result.threw <=> ~hook.inside)

C10_Witness ==
    /\ hook.called /\ hook.inside /\ ~hook.result.threw
    /\ hook.result.context.user = Null
    /\ hook.result.context.loading


\* C22: a click on a menu item calls switchMode exactly when the item
\* carries a mode that differs from the current mode (with a user loaded
\* that is one more mode request, for the item's mode); in every case the
\* click navigates to the item's path and closes the menu in the same step,
\* the current mode still being what it was.
C22_MenuSwitchesIffModeDiffers ==
    [][\A item \in menuItems :
         handleNavigation(item) =>
           /\ route' = item.path
           /\ ~isOpen'
           /\ currentMode' = currentMode
           /\ IF ItemSwitches(item) /\ user # Null
              THEN /\ Requests("mode", calls') = Requests("mode", calls) + 1
                   /\ \E c \in BagToSet(calls') :
                        /\ c.op = "mode" /\ c.status = "sent"
                        /\ c.mode = item.mode
                        /\ calls' = Add(calls, c)
              ELSE calls' = calls
           /\ (~ItemSwitches(item) => lastSettled' = lastSettled)
           /\ (ItemSwitches(item) /\ user = Null
                 => lastSettled' = Promise("mode", "none", "resolved"))]_vars

\* the menu has navigated to the EgoCore screen and closed while the mode
\* request it sent is still in flight and the mode is still the old one
C22_Witness ==
    /\ route = "/egocore" /\ ~isOpen
    /\ currentMode = "echoverse"
    /\ \E c \in InFlight : c.op = "mode" /\ c.status = "sent" /\ c.mode = "egocore"

\* C24: the journey screen moves to a later step, or leaves for the profile,
\* only in the step in which a POST of the step's responses succeeded; a
\* failed POST leaves the step and the route as they were.
C24_AdvanceOnlyAfterSave ==
    [][/\ (currentStep' > currentStep \/ (route = "/echoverse" /\ route' = "/profile"))
            => lastSettled' = Promise("journey", "ok", "resolved")
       /\ (\E c \in InFlight : updateUserJourneyCatch(c))
            => (currentStep' = currentStep /\ route' = route)]_vars

\* C25: while the provider's loading flag is true (initialization has not
\* run its finally block) the menu has not been opened, no request of
\* switchMode, trackBehavior, updateUserJourney or getUserInsights is in
\* flight and none of these operations has settled.
C25_NoRequestWhileLoading ==
    (loading \/ initPc # "done") =>
        /\ calls = EmptyBag
        /\ lastSettled = NoPromise
        /\ ~isOpen

\* initialization is over and has produced a user, the menu is open and a
\* request of a consumer is in flight
C25_Witness ==
    /\ ~loading /\ initPc = "done" /\ user # Null
    /\ isOpen
    /\ \E c \in InFlight : c.op = "journey"


\* C26: with a user loaded, once every switchMode request has settled and
\* none of them failed, the current mode is the mode the backend stores for
\* the user.
C26_ModeAgreesWithBackendWhenSettled ==
    [][(/\ user # Null
        /\ Requests("mode", calls') = 0
        /\ lastSettled' = Promise("mode", "ok", "resolved")
        /\ backendMode' = backendMode
        /\ \A c \in InFlight : c.op = "mode" => c.outcome # "fail")
          => currentMode' = backendMode'[user.id]]_vars

C27_FeedAndPostBothShown ==
    [][LET Ids(ps) == {ps[k].id : k \in 1..Len(ps)}
       IN  /\ \A c \in InFlight :
                createPostThen(c) => Ids(posts') = Ids(posts) \cup {c.data.id}
           /\ \A c \in InFlight :
                loadSocialFeedThen(c) => Ids(posts') = Ids(posts) \cup Ids(c.data)
           /\ \A c \in InFlight :
                createPostCatch(c) => (posts' = posts /\ newPostContent' = newPostContent)]_vars

C28_TimerEndsOnlyItsSession ==
    [][/\ \A c \in InFlight :
            (exitVRTimer(c) /\ isInVR) => currentSpace = c.joined
       /\ (isInVR' <=> currentSpace' # "<null>")]_vars

\* C30: every request to /ai/chat, sent by the chat screen or by the
\* EgoCore screen, carries the provider's current mode of the moment it is
\* sent.
C30_ChatRequestCarriesActiveMode ==
    [][\A c \in BagToSet(calls') :
         (/\ c.op \in {"chat", "egochat"}
          /\ CopiesIn(c, calls') > CopiesIn(c, calls))
           => c.mode = currentMode]_vars

\* C29: a busy flag is true only while a request of its screen is in
\* flight, and the step in which such a request settles, with success or
\* with failure, clears the flag; so once every request has settled no
\* busy flag is true.
C29_BusyFlagsCleared ==
    [][LET Paying(inflight) == Requests("subscribe", inflight)
                               + Requests("purchase", inflight)
                               + Requests("unlock", inflight)
           \* requests are in flight after the step and none has settled in it
           Pending(before, after) == after > 0 /\ after >= before
       IN  /\ isLoading' => Pending(Requests("chat", calls), Requests("chat", calls'))
           /\ isPosting' => Pending(Requests("post", calls), Requests("post", calls'))
           /\ isProcessing' => Pending(Paying(calls), Paying(calls'))
           /\ isSubmitting' =>
                 Pending(Requests("journey", calls), Requests("journey", calls'))]_vars

\* a busy flag has been set and cleared: the unlock request of the
\* monetization screen has failed, nothing is in flight and no flag is true
C29_Witness ==
    /\ route = "/premium"
    /\ lastSettled = Promise("unlock", "fail", "resolved")
    /\ calls = EmptyBag
    /\ ~isLoading /\ ~isPosting /\ ~isProcessing /\ ~isSubmitting
====
